---------------------------- MODULE Spec2Model ----------------------------
(***************************************************************************)
(* Model of qr_creator.py: the three renderers (emit_text, emit_png,       *)
(* emit_svg), sanitize_filename, and main's output routing.                *)
(*                                                                         *)
(* A Python str is a sequence of one-character strings.  The QR matrix is  *)
(* a sequence of rows, each a sequence of BOOLEAN.  The qrcode library is  *)
(* external: build_qr yields some square matrix or raises, and make_image  *)
(* yields an image that is kept abstract (factory and matrix) or raises.   *)
(***************************************************************************)
EXTENDS Integers, Sequences, FiniteSets

VARIABLES
    \* ---- main(): one invocation of the command
    pc,           \* position in main
    args,         \* the argparse namespace
    qr,           \* the matrix build_qr returned (<<>> before)
    output_file,  \* main's local output_file
    to_file,      \* main's local to_file
    payload,      \* what the selected renderer returned
    rendered,     \* the renderers called so far, in order
    sanitized,    \* the texts sanitize_filename was called on, in order
    opened,       \* the open() calls that succeeded, in order
    written,      \* the write() calls, in order
    ret,          \* the process exit status (NoRet while running)
    err,          \* where an exception was raised ("none" if nowhere)
    \* ---- sanitize_filename called directly, once and again on its result
    text, name1, name2, spc,
    \* ---- the renderers called directly on a matrix
    matrix, use_unicode, style, result, rpc

mainVars == <<pc, args, qr, output_file, to_file, payload, rendered,
              sanitized, opened, written, ret, err>>
sanVars == <<text, name1, name2, spc>>
renVars == <<matrix, use_unicode, style, result, rpc>>
vars == <<mainVars, sanVars, renVars>>

---------------------------------------------------------------------------
(* Bounds *)

\* longest run of filler word characters in a sanitize_filename input
MaxPad == 51
\* longest free part of a sanitize_filename input after the filler
MaxTail == 3
\* longest free-form input text of main
MaxInput == 2
\* largest matrix side handed to the renderers
MaxSide == 2

---------------------------------------------------------------------------
(* Characters *)

Letters ==
    {"a", "b", "c", "d", "e", "f", "g", "h", "i", "j", "k", "l", "m",
     "n", "o", "p", "q", "r", "s", "t", "u", "v", "w", "x", "y", "z",
     "A", "B", "C", "D", "E", "F", "G", "H", "I", "J", "K", "L", "M",
     "N", "O", "P", "Q", "R", "S", "T", "U", "V", "W", "X", "Y", "Z"}
Digits == {"0", "1", "2", "3", "4", "5", "6", "7", "8", "9"}

\* regex \w
IsWord(c) == c \in Letters \cup Digits \cup {"_"}
\* regex \s
IsSpace(c) == c \in {" ", "\t", "\n", "\r", "\f"}
Hyphen == "-"

Min(a, b) == IF a < b THEN a ELSE b

---------------------------------------------------------------------------
(* sanitize_filename *)

\* re.sub(r'[^\w\s-]', '', text)
KeepSafe(s) == SelectSeq(s, LAMBDA c : IsWord(c) \/ IsSpace(c) \/ c = Hyphen)

\* a character of the class [-\s]
IsSep(c) == c = Hyphen \/ IsSpace(c)

RECURSIVE SkipSeps(_, _)
\* the first index >= i of s that holds no [-\s] character (Len(s)+1 if none)
SkipSeps(s, i) ==
    IF i <= Len(s) /\ IsSep(s[i]) THEN SkipSeps(s, i + 1) ELSE i

RECURSIVE CollapseFrom(_, _)
CollapseFrom(s, i) ==
    IF i > Len(s) THEN <<>>
    ELSE IF IsSep(s[i]) THEN <<Hyphen>> \o CollapseFrom(s, SkipSeps(s, i))
    ELSE <<s[i]>> \o CollapseFrom(s, i + 1)

\* re.sub(r'[-\s]+', '-', filename)
CollapseRuns(s) == CollapseFrom(s, 1)

RECURSIVE LStripHyphens(_)
LStripHyphens(s) ==
    IF s # <<>> /\ s[1] = Hyphen THEN LStripHyphens(Tail(s)) ELSE s

RECURSIVE RStripHyphens(_)
RStripHyphens(s) ==
    IF s # <<>> /\ s[Len(s)] = Hyphen
    THEN RStripHyphens(SubSeq(s, 1, Len(s) - 1))
    ELSE s

\* filename.strip('-')
StripHyphens(s) == RStripHyphens(LStripHyphens(s))

\* the slice bound of filename[:50]
MaxNameLen == 50

\* the fallback name "qrcode"
Fallback == <<"q", "r", "c", "o", "d", "e">>

\* filename[:50] if filename else "qrcode", with the fallback dropped
LimitNoFallback(s) == SubSeq(s, 1, Min(Len(s), MaxNameLen))

\* filename[:50] if filename else "qrcode"
LimitOrFallback(s) ==
    IF s # <<>> THEN SubSeq(s, 1, Min(Len(s), MaxNameLen)) ELSE Fallback

sanitize_filename(s) == LimitOrFallback(StripHyphens(CollapseRuns(KeepSafe(s))))


---------------------------------------------------------------------------
(* emit_text *)

\* the full block of the unicode renderer
FullBlock == "█"

\* an ASCII renderer whose light cell is one space wide
CellNarrowWhite(cell, unicode) ==
    IF unicode
    THEN (IF cell THEN <<FullBlock>> ELSE <<" ">>)
    ELSE (IF cell THEN <<"#", "#">> ELSE <<" ">>)

\* black if cell else white, for the two settings of use_unicode
Cell(cell, unicode) ==
    IF unicode
    THEN (IF cell THEN <<FullBlock>> ELSE <<" ">>)
    ELSE (IF cell THEN <<"#", "#">> ELSE <<" ", " ">>)

RECURSIVE RowText(_, _, _)
\* "".join(black if cell else white for cell in row), from column i on
RowText(row, unicode, i) ==
    IF i > Len(row) THEN <<>>
    ELSE Cell(row[i], unicode) \o RowText(row, unicode, i + 1)

RECURSIVE JoinLines(_, _)
\* "\n".join(lines), from line i on
JoinLines(lines, i) ==
    IF i > Len(lines) THEN <<>>
    ELSE IF i = Len(lines) THEN lines[i]
    ELSE lines[i] \o <<"\n">> \o JoinLines(lines, i + 1)

\* what a renderer returns: text for emit_text, the image (factory and
\* matrix) behind the bytes or markup for emit_png and emit_svg
Payload(kind, factory, txt, m) ==
    [kind |-> kind, factory |-> factory, text |-> txt, matrix |-> m]

NoPayload == Payload("none", "", <<>>, <<>>)

emit_text(m, unicode) ==
    LET lines == [r \in 1..Len(m) |-> RowText(m[r], unicode, 1)]
    IN  Payload("text", "", JoinLines(lines, 1) \o <<"\n">>, <<>>)

---------------------------------------------------------------------------
(* emit_png, emit_svg *)

emit_png(m) == Payload("png", "PilImage", <<>>, m)

\* the values --svg-style accepts
SvgStyles == {"path", "rect", "frag"}

\* a factory choice that sends every style but "path" to SvgImage
SvgFactoryRectDefault(s) ==
    IF s = "path" THEN "SvgPathImage"
    ELSE IF s = "frag" THEN "SvgFragmentImage"
    ELSE "SvgImage"

\* the if / elif / else over style
SvgFactory(s) ==
    IF s = "rect" THEN "SvgImage"
    ELSE IF s = "frag" THEN "SvgFragmentImage"
    ELSE "SvgPathImage"

emit_svg(m, s) == Payload("svg", SvgFactory(s), <<>>, m)

---------------------------------------------------------------------------
(* Inputs *)

RECURSIVE Pad(_)
\* n filler word characters
Pad(n) == IF n = 0 THEN <<>> ELSE <<"a">> \o Pad(n - 1)

\* one character of each class sanitize_filename tells apart, "_" besides
SanAlphabet == {"a", "_", "-", " ", "/"}

SeqsUpTo(S, n) == UNION {[1..k -> S] : k \in 0..n}

SanInputs ==
    {Pad(n) \o t : n \in 0..MaxPad, t \in SeqsUpTo(SanAlphabet, MaxTail)}

Matrices == UNION {[1..n -> [1..n -> BOOLEAN]] : n \in 1..MaxSide}

\* style values handed to emit_svg directly: the three known and two not
StyleValues == SvgStyles \cup {"fragment", ""}

HttpsExample ==
    <<"h", "t", "t", "p", "s", ":", "/", "/", "e", "x", "a", "m", "p", "l",
      "e", ".", "c", "o", "m">>

WifiExample ==
    <<"W", "I", "F", "I", ":", "S", ":", "M", "y", "N", "e", "t", ";", "T",
      ":", "W", "P", "A", ";", "P", ":", "s", "3", "c", "r", "3", "t", ";",
      ";">>

InputAlphabet == {"a", "-", " ", "?"}

MainInputs ==
    SeqsUpTo(InputAlphabet, MaxInput) \cup {HttpsExample, WifiExample}

\* args.out: None when --out is absent, else the string given
NoneOut == [given |-> FALSE, value |-> <<>>]
OutStr(s) == [given |-> TRUE, value |-> s]
Stdout == <<"-">>
SamplePath == <<"d", "/", "o", "-", ".", "x">>
OutValues == {NoneOut, OutStr(<<>>), OutStr(Stdout), OutStr(SamplePath)}

\* what the command line can hold before argparse has looked at it
ArgvValues ==
    [input : MainInputs, to_png : BOOLEAN, to_svg : BOOLEAN, out : OutValues,
     ascii : BOOLEAN, svg_style : StyleValues \ {""}]

\* matrices build_qr is taken to return
QrSamples ==
    {<<<<TRUE>>>>, <<<<TRUE, FALSE>>, <<FALSE, TRUE>>>>}

NoRet == -1

---------------------------------------------------------------------------
(* main *)

\* the mutually exclusive group and the choices of --svg-style
ArgsAccepted(a) == ~(a.to_png /\ a.to_svg) /\ a.svg_style \in SvgStyles

\* a test for "--out was given" in place of the truth value of args.out
OutIsNotNone(o) == o.given

\* if args.out:
Truthy(o) == o.given /\ o.value # <<>>

PngExt == <<".", "p", "n", "g">>
SvgExt == <<".", "s", "v", "g">>

\* the two extensions the other way round
ExtensionSwapped(a) == IF a.to_png THEN SvgExt ELSE PngExt

\* ".png" if args.to_png else ".svg"
Extension(a) == IF a.to_png THEN PngExt ELSE SvgExt

\* a resolver that honours --out for PNG and SVG only: text goes to the stream
ResolveTargetTextToStream(a) ==
    IF Truthy(a.out) /\ (a.to_png \/ a.to_svg)
    THEN [output_file |-> a.out.value, to_file |-> a.out.value # Stdout,
          sanitized |-> <<>>]
    ELSE IF a.to_png \/ a.to_svg
    THEN [output_file |-> sanitize_filename(a.input) \o Extension(a),
          to_file |-> TRUE, sanitized |-> <<a.input>>]
    ELSE [output_file |-> Stdout, to_file |-> FALSE, sanitized |-> <<>>]

\* the locals the if / else over args.out leaves behind, and the texts
\* sanitize_filename was called on
ResolveTarget(a) ==
    IF Truthy(a.out)
    THEN [output_file |-> a.out.value, to_file |-> a.out.value # Stdout,
          sanitized |-> <<>>]
    ELSE IF a.to_png \/ a.to_svg
    THEN [output_file |-> sanitize_filename(a.input) \o Extension(a),
          to_file |-> TRUE, sanitized |-> <<a.input>>]
    ELSE [output_file |-> Stdout, to_file |-> FALSE, sanitized |-> <<>>]

\* a dispatch that tests --to-svg where it should test --to-png
SelectRendererSvgFirst(a) ==
    IF a.to_svg THEN "emit_png"
    ELSE IF a.to_png THEN "emit_svg"
    ELSE "emit_text"

\* if args.to_png: ... if args.to_svg: ... else text
SelectRenderer(a) ==
    IF a.to_png THEN "emit_png"
    ELSE IF a.to_svg THEN "emit_svg"
    ELSE "emit_text"

\* a main that opens the file as soon as it knows the target
AfterResolveOpenFirst(tf) == IF tf THEN "open" ELSE "render"

\* the statement after the target is resolved: the renderer's call
AfterResolve(tf) == "render"

\* the statement after the payload is there: open() or the stream's write
AfterRender(tf) == IF tf THEN "open" ELSE "write"

\* open(output_file, "wb") for PNG, open(output_file, "w") otherwise
FileMode(a) == IF a.to_png THEN "wb" ELSE "w"

MainIdle ==
    /\ pc = "idle"
    /\ args = [input |-> <<>>, to_png |-> FALSE, to_svg |-> FALSE,
               out |-> NoneOut, ascii |-> FALSE, svg_style |-> "path"]
    /\ qr = <<>>
    /\ output_file = <<>>
    /\ to_file = FALSE
    /\ payload = NoPayload
    /\ rendered = <<>>
    /\ sanitized = <<>>
    /\ opened = <<>>
    /\ written = <<>>
    /\ ret = NoRet
    /\ err = "none"

SanIdle == text = <<>> /\ name1 = <<>> /\ name2 = <<>> /\ spc = "idle"

RenIdle ==
    /\ matrix = <<>>
    /\ use_unicode = FALSE
    /\ style = "path"
    /\ result = NoPayload
    /\ rpc = "idle"

Init ==
    /\ pc = "parse"
    /\ args \in ArgvValues
    /\ qr = <<>>
    /\ output_file = <<>>
    /\ to_file = FALSE
    /\ payload = NoPayload
    /\ rendered = <<>>
    /\ sanitized = <<>>
    /\ opened = <<>>
    /\ written = <<>>
    /\ ret = NoRet
    /\ err = "none"
    /\ SanIdle
    /\ RenIdle

\* an exception leaves main: the interpreter exits with status 1
Raise(where) ==
    /\ pc' = "exit"
    /\ err' = where
    /\ ret' = 1

ParseArgs ==
    /\ pc = "parse"
    /\ ArgsAccepted(args)
    /\ pc' = "build"
    /\ UNCHANGED <<args, qr, output_file, to_file, payload, rendered,
                   sanitized, opened, written, ret, err>>
    /\ UNCHANGED <<sanVars, renVars>>

\* argparse's error(): usage on stderr and exit status 2
ParseArgsError ==
    /\ pc = "parse"
    /\ ~ArgsAccepted(args)
    /\ pc' = "exit"
    /\ err' = "parse"
    /\ ret' = 2
    /\ UNCHANGED <<args, qr, output_file, to_file, payload, rendered,
                   sanitized, opened, written>>
    /\ UNCHANGED <<sanVars, renVars>>

BuildQr ==
    /\ pc = "build"
    /\ \E m \in QrSamples : qr' = m
    /\ pc' = "resolve"
    /\ UNCHANGED <<args, output_file, to_file, payload, rendered, sanitized,
                   opened, written, ret, err>>
    /\ UNCHANGED <<sanVars, renVars>>

\* qrcode raises (the data fits no version, a bad box size or border)
BuildQrRaises ==
    /\ pc = "build"
    /\ Raise("build")
    /\ UNCHANGED <<args, qr, output_file, to_file, payload, rendered,
                   sanitized, opened, written>>
    /\ UNCHANGED <<sanVars, renVars>>

Resolve ==
    /\ pc = "resolve"
    /\ LET t == ResolveTarget(args)
       IN  /\ output_file' = t.output_file
           /\ to_file' = t.to_file
           /\ sanitized' = sanitized \o t.sanitized
           /\ pc' = AfterResolve(t.to_file)
    /\ UNCHANGED <<args, qr, payload, rendered, opened, written, ret, err>>
    /\ UNCHANGED <<sanVars, renVars>>

EmitPng ==
    /\ pc = "render"
    /\ SelectRenderer(args) = "emit_png"
    /\ payload' = emit_png(qr)
    /\ rendered' = Append(rendered, "emit_png")
    /\ pc' = AfterRender(to_file)
    /\ UNCHANGED <<args, qr, output_file, to_file, sanitized, opened,
                   written, ret, err>>
    /\ UNCHANGED <<sanVars, renVars>>

EmitSvg ==
    /\ pc = "render"
    /\ SelectRenderer(args) = "emit_svg"
    /\ payload' = emit_svg(qr, args.svg_style)
    /\ rendered' = Append(rendered, "emit_svg")
    /\ pc' = AfterRender(to_file)
    /\ UNCHANGED <<args, qr, output_file, to_file, sanitized, opened,
                   written, ret, err>>
    /\ UNCHANGED <<sanVars, renVars>>

EmitText ==
    /\ pc = "render"
    /\ SelectRenderer(args) = "emit_text"
    /\ payload' = emit_text(qr, ~args.ascii)
    /\ rendered' = Append(rendered, "emit_text")
    /\ pc' = AfterRender(to_file)
    /\ UNCHANGED <<args, qr, output_file, to_file, sanitized, opened,
                   written, ret, err>>
    /\ UNCHANGED <<sanVars, renVars>>

\* make_image or save raises inside emit_png or emit_svg (no Pillow, ...)
RenderRaises ==
    /\ pc = "render"
    /\ SelectRenderer(args) \in {"emit_png", "emit_svg"}
    /\ rendered' = Append(rendered, SelectRenderer(args))
    /\ Raise("render")
    /\ UNCHANGED <<args, qr, output_file, to_file, payload, sanitized,
                   opened, written>>
    /\ UNCHANGED <<sanVars, renVars>>

\* open() creates or truncates the file
OpenFile ==
    /\ pc = "open"
    /\ opened' = Append(opened, [path |-> output_file, mode |-> FileMode(args)])
    /\ pc' = "write"
    /\ UNCHANGED <<args, qr, output_file, to_file, payload, rendered,
                   sanitized, written, ret, err>>
    /\ UNCHANGED <<sanVars, renVars>>

\* open() raises OSError: nothing was created
OpenRaises ==
    /\ pc = "open"
    /\ Raise("open")
    /\ UNCHANGED <<args, qr, output_file, to_file, payload, rendered,
                   sanitized, opened, written>>
    /\ UNCHANGED <<sanVars, renVars>>

WriteFile ==
    /\ pc = "write"
    /\ to_file
    /\ written' = Append(written, [dest |-> "file", path |-> output_file,
                                   data |-> payload])
    /\ pc' = "return"
    /\ UNCHANGED <<args, qr, output_file, to_file, payload, rendered,
                   sanitized, opened, ret, err>>
    /\ UNCHANGED <<sanVars, renVars>>

WriteStdout ==
    /\ pc = "write"
    /\ ~to_file
    /\ written' = Append(written, [dest |-> "stdout", path |-> <<>>,
                                   data |-> payload])
    /\ pc' = "return"
    /\ UNCHANGED <<args, qr, output_file, to_file, payload, rendered,
                   sanitized, opened, ret, err>>
    /\ UNCHANGED <<sanVars, renVars>>

\* write() raises OSError (full disk, closed pipe)
WriteRaises ==
    /\ pc = "write"
    /\ Raise("write")
    /\ UNCHANGED <<args, qr, output_file, to_file, payload, rendered,
                   sanitized, opened, written>>
    /\ UNCHANGED <<sanVars, renVars>>

Return ==
    /\ pc = "return"
    /\ ret' = 0
    /\ pc' = "done"
    /\ UNCHANGED <<args, qr, output_file, to_file, payload, rendered,
                   sanitized, opened, written, err>>
    /\ UNCHANGED <<sanVars, renVars>>

Next ==
    \/ ParseArgs
    \/ ParseArgsError
    \/ BuildQr
    \/ BuildQrRaises
    \/ Resolve
    \/ EmitPng
    \/ EmitSvg
    \/ EmitText
    \/ RenderRaises
    \/ OpenFile
    \/ OpenRaises
    \/ WriteFile
    \/ WriteStdout
    \/ WriteRaises
    \/ Return

Spec == Init /\ [][Next]_vars

---------------------------------------------------------------------------
(* sanitize_filename, called on a text and again on its own result *)

SanInit ==
    /\ text \in SanInputs
    /\ name1 = <<>>
    /\ name2 = <<>>
    /\ spc = "ready"
    /\ MainIdle
    /\ RenIdle

ApplySanitize ==
    /\ spc = "ready"
    /\ name1' = sanitize_filename(text)
    /\ spc' = "once"
    /\ UNCHANGED <<text, name2>>
    /\ UNCHANGED <<mainVars, renVars>>

ReapplySanitize ==
    /\ spc = "once"
    /\ name2' = sanitize_filename(name1)
    /\ spc' = "twice"
    /\ UNCHANGED <<text, name1>>
    /\ UNCHANGED <<mainVars, renVars>>

SanNext ==
    \/ ApplySanitize
    \/ ReapplySanitize

SpecSanitize == SanInit /\ [][SanNext]_vars

---------------------------------------------------------------------------
(* the renderers, called on any matrix, glyph mode and style *)

RenInit ==
    /\ matrix \in Matrices
    /\ use_unicode \in BOOLEAN
    /\ style \in StyleValues
    /\ result = NoPayload
    /\ rpc = "ready"
    /\ MainIdle
    /\ SanIdle

CallEmitText ==
    /\ rpc = "ready"
    /\ result' = emit_text(matrix, use_unicode)
    /\ rpc' = "text"
    /\ UNCHANGED <<matrix, use_unicode, style>>
    /\ UNCHANGED <<mainVars, sanVars>>

CallEmitPng ==
    /\ rpc = "ready"
    /\ result' = emit_png(matrix)
    /\ rpc' = "png"
    /\ UNCHANGED <<matrix, use_unicode, style>>
    /\ UNCHANGED <<mainVars, sanVars>>

CallEmitSvg ==
    /\ rpc = "ready"
    /\ result' = emit_svg(matrix, style)
    /\ rpc' = "svg"
    /\ UNCHANGED <<matrix, use_unicode, style>>
    /\ UNCHANGED <<mainVars, sanVars>>

RenNext ==
    \/ CallEmitText
    \/ CallEmitPng
    \/ CallEmitSvg

SpecRender == RenInit /\ [][RenNext]_vars

\* main's invocations and the direct calls of sanitize_filename together
NamingInit == Init \/ SanInit
NamingNext ==
    \/ Next
    \/ SanNext
SpecNaming == NamingInit /\ [][NamingNext]_vars

---------------------------------------------------------------------------
(* Vocabulary of the properties *)

\* main has passed the if / else over args.out
Resolved ==
    pc \in {"render", "open", "write", "return", "done"}
        \/ (pc = "exit" /\ err \in {"render", "open", "write"})

TextFormat == ~args.to_png /\ ~args.to_svg

\* a name of word characters and single hyphens, none of them at either
\* end, at most MaxNameLen long
WellFormedName(s) ==
    /\ Len(s) <= MaxNameLen
    /\ \A i \in 1..Len(s) : IsWord(s[i]) \/ s[i] = Hyphen
    /\ \A i \in 1..(Len(s) - 1) : ~(s[i] = Hyphen /\ s[i + 1] = Hyphen)
    /\ s # <<>> => s[1] # Hyphen /\ s[Len(s)] # Hyphen

NoWordChars(s) == \A i \in 1..Len(s) : ~IsWord(s[i])

HttpsExamplePng ==
    <<"h", "t", "t", "p", "s", "e", "x", "a", "m", "p", "l", "e", "c", "o",
      "m", ".", "p", "n", "g">>

WifiExampleSvg ==
    <<"W", "I", "F", "I", "S", "M", "y", "N", "e", "t", "T", "W", "P", "A",
      "P", "s", "3", "c", "r", "3", "t", ".", "s", "v", "g">>

QrcodePng == <<"q", "r", "c", "o", "d", "e", ".", "p", "n", "g">>

\* the positions of the newlines of t
Newlines(t) == {i \in 1..Len(t) : t[i] = "\n"}

\* the lines of t, each ended by a newline (a rest without one counts too)
LinesOf(t) ==
    LET nl == Newlines(t)
        starts == {1} \cup {i + 1 : i \in nl}
        lineAt(b) ==
            LET e == IF \E i \in nl : i >= b
                     THEN CHOOSE i \in nl : i >= b /\ \A j \in nl : j >= b => i <= j
                     ELSE Len(t) + 1
            IN  SubSeq(t, b, e - 1)
    IN  {<<b, lineAt(b)>> : b \in {x \in starts : x <= Len(t)}}

---------------------------------------------------------------------------
(* Properties *)

\* C1 (as claimed): sanitize_filename is idempotent: applied to its own
\* result it returns that result, also when the cleaned text is longer than
\* 50 characters and has a hyphen at or next to position 50.
C1_Idempotent == spc = "twice" => name2 = name1

\* C2 (as claimed): every result of sanitize_filename is at most 50 long,
\* holds only word characters and single hyphens, and neither starts nor
\* ends with a hyphen.
C2_WellFormedResult == spc \in {"once", "twice"} => WellFormedName(name1)

ExplicitPathDecides(Explicit) ==
    (Resolved /\ Explicit) =>
        /\ sanitized = <<>>
        /\ args.out.value = Stdout =>
              /\ ~to_file
              /\ opened = <<>>
              /\ \A i \in 1..Len(written) : written[i].dest = "stdout"
        /\ args.out.value # Stdout =>
              /\ to_file
              /\ output_file = args.out.value
              /\ \A i \in 1..Len(opened) : opened[i].path = args.out.value
              /\ \A i \in 1..Len(written) :
                    written[i].dest = "file" /\ written[i].path = args.out.value

\* C4 (as claimed): whenever --out is given it alone decides the target, for
\* every format: "-" is the stream, any other value the file of that name.
C4_AnyGivenPathDecides == ExplicitPathDecides(args.out.given)

\* C4 (amended): whenever --out is given and not empty it alone decides the
\* target, for every format: "-" is the stream and nothing is opened or
\* auto-named, any other value is the file of exactly that name, and
\* sanitize_filename is not called.
C4_NonEmptyPathDecides ==
    ExplicitPathDecides(args.out.given /\ args.out.value # <<>>)

C4_Witness ==
    /\ pc = "done"
    /\ TextFormat
    /\ args.out = OutStr(SamplePath)
    /\ Len(opened) = 1
    /\ Len(written) = 1
    /\ written[1].path = SamplePath

\* C5: sanitize_filename never returns the empty string, and a text with no
\* word character (the empty text too) gives "qrcode"; auto-naming such an
\* input as PNG gives "qrcode.png".
C5_NeverEmpty ==
    /\ spc \in {"once", "twice"} =>
          /\ name1 # <<>>
          /\ NoWordChars(text) => name1 = Fallback
    /\ spc = "twice" => name2 # <<>>
    /\ (Resolved /\ sanitized # <<>>) =>
          /\ Len(output_file) > 4
          /\ (NoWordChars(args.input) /\ args.to_png) => output_file = QrcodePng

C5_Witness ==
    /\ pc = "done"
    /\ args.input = <<"?", " ">>
    /\ args.to_png
    /\ Len(written) = 1
    /\ written[1].path = QrcodePng

\* what C6 says of the text of a matrix, with the given width of a cell
TextShape(width) ==
    rpc = "text" =>
        LET ls == LinesOf(result.text)
        IN  /\ Cardinality(ls) = Len(matrix)
            /\ \A l \in ls : Len(l[2]) = width * Len(matrix)

\* C6 (as claimed): emit_text returns as many lines as the matrix has rows,
\* each 2 * side long, in both glyph modes.
C6_TwoCharsPerCell == TextShape(2)

\* C6 (amended): emit_text returns as many lines as the matrix has rows, all
\* of one length: 2 * side in the ASCII mode, side in the unicode mode.
C6_LineShape == TextShape(IF use_unicode THEN 1 ELSE 2)

C6_Witness ==
    /\ rpc = "text"
    /\ ~use_unicode
    /\ matrix = <<<<TRUE, FALSE>>, <<FALSE, TRUE>>>>
    /\ result.text = <<"#", "#", " ", " ", "\n", " ", " ", "#", "#", "\n">>

\* C7 (as claimed): emit_svg returns no markup for a style that is not one
\* of the recognized ones.
C7_UnknownStyleRejected ==
    (rpc = "svg" /\ style \notin SvgStyles) => result.kind # "svg"

\* C7 (amended): emit_svg signals no error for a style it does not
\* recognize: it returns the markup of the path style for the matrix.
C7_UnknownStyleIsPath ==
    (rpc = "svg" /\ style \notin SvgStyles) =>
        /\ result.kind = "svg"
        /\ result.factory = "SvgPathImage"
        /\ result.matrix = matrix

C7_Witness ==
    /\ rpc = "svg"
    /\ style = "fragment"
    /\ result.factory = "SvgPathImage"

\* C8: the target is opened and written only once the renderer has returned
\* the payload, and what is written is that payload; when build_qr or the
\* renderer raises, nothing has been opened or written.
C8_WriteAfterRender ==
    /\ (opened # <<>> \/ written # <<>>) =>
          /\ payload.kind # "none"
          /\ rendered # <<>>
    /\ \A i \in 1..Len(written) : written[i].data = payload
    /\ err \in {"parse", "build", "render"} => opened = <<>> /\ written = <<>>

C8_Witness ==
    /\ pc = "write"
    /\ to_file
    /\ opened # <<>>
    /\ written = <<>>
    /\ payload.kind = "png"

\* C9: main returns 0 exactly when it runs to its end, and then exactly one
\* renderer has run, the one the flags select (text with neither flag), and
\* exactly one write has gone to exactly one target.
C9_OneRendererOneWrite ==
    /\ ret = 0 <=> pc = "done"
    /\ pc = "done" =>
          /\ args.to_png => rendered = <<"emit_png">>
          /\ args.to_svg => rendered = <<"emit_svg">>
          /\ TextFormat => rendered = <<"emit_text">>
          /\ payload.kind = (IF args.to_png THEN "png"
                             ELSE IF args.to_svg THEN "svg" ELSE "text")
          /\ Len(written) = 1
          /\ Len(opened) = (IF to_file THEN 1 ELSE 0)
          /\ written[1].dest = (IF to_file THEN "file" ELSE "stdout")

C9_Witness ==
    /\ pc = "done"
    /\ ret = 0
    /\ args.to_svg
    /\ rendered = <<"emit_svg">>
    /\ Len(written) = 1

\* C10: --out with the empty string is handled as --out absent: text goes to
\* the stream, PNG / SVG to the auto-named file; no open() ever gets the
\* empty path.
C10_EmptyPathIsNoPath ==
    /\ (Resolved /\ args.out = OutStr(<<>>)) =>
          /\ TextFormat => ~to_file /\ output_file = Stdout /\ opened = <<>>
          /\ ~TextFormat =>
                /\ to_file
                /\ sanitized = <<args.input>>
                /\ output_file = sanitize_filename(args.input) \o Extension(args)
    /\ \A i \in 1..Len(opened) : opened[i].path # <<>>

C10_Witness ==
    /\ pc = "done"
    /\ args.out = OutStr(<<>>)
    /\ args.to_svg
    /\ Len(opened) = 1
    /\ opened[1].path = sanitize_filename(args.input) \o SvgExt

===========================================================================
